---------------------------- MODULE Spec2Model ----------------------------
(***************************************************************************)
(* Model of src/project21.py, a Streamlit dashboard script.                *)
(*                                                                         *)
(* The script is re-executed top to bottom on every user interaction.  A   *)
(* render pass is modelled as a sequence of steps (pc), one per section of *)
(* the script; the process-lifetime state is the st.cache_data cache of    *)
(* load_data, the widget state of the two multiselects and the file on     *)
(* disk.                                                                   *)
(*                                                                         *)
(* Modelling conventions:                                                  *)
(*  - currency amounts are integers in cents, so int() truncation and      *)
(*    fractional amounts are exact;                                        *)
(*  - a missing CSV cell (NaN after pd.read_csv) is the value NA;          *)
(*  - the text of an Order Date cell is the sequence of its "/"-separated  *)
(*    numeric fields, <<>> for an empty cell; a parsed date is <<y, m, d>> *)
(*    and NaT is <<>>;                                                     *)
(*  - the CSV always has the six columns the script reads, Sales and       *)
(*    Profit are always numeric, and no Region or Category cell is         *)
(*    missing (what a multiselect does with a NaN option is left out);     *)
(*  - the years of the dates are four-digit years within the range of a    *)
(*    pandas Timestamp.                                                    *)
(***************************************************************************)
EXTENDS Integers, Sequences, FiniteSets

\* Longest CSV file (number of data rows) the model explores.
MaxRows == 3

\* The path the script passes to load_data (line 36).
PATH == "superstore_sales.csv"

\* A missing cell: NaN in a text column.
NA == "NA"

\* A failed date conversion (pd.NaT).
NaT == <<>>

-----------------------------------------------------------------------------
(* Input universe: the rows a CSV file may hold.                           *)

\* The two rows of the scenario of the specification, plus rows with a
\* fractional amount and a loss, a missing Sub-Category, a Sub-Category
\* shared with another Region and Category, and a date that is not
\* month/day/year.
Rows ==
  { [Region |-> "East", Category |-> "Furniture", SubCategory |-> "Chairs",
     Sales |-> 10000, Profit |-> 1000, OrderDate |-> <<1, 1, 2020>>],
    [Region |-> "West", Category |-> "Office", SubCategory |-> "Paper",
     Sales |-> 5000, Profit |-> 500, OrderDate |-> <<2, 2, 2020>>],
    [Region |-> "East", Category |-> "Office", SubCategory |-> "Binders",
     Sales |-> 2050, Profit |-> -3075, OrderDate |-> <<2, 29, 2020>>],
    [Region |-> "West", Category |-> "Furniture", SubCategory |-> NA,
     Sales |-> 1025, Profit |-> 250, OrderDate |-> <<12, 31, 2019>>],
    [Region |-> "West", Category |-> "Office", SubCategory |-> "Chairs",
     Sales |-> 500, Profit |-> 100, OrderDate |-> <<1, 5, 2020>>],
    [Region |-> "East", Category |-> "Furniture", SubCategory |-> "Chairs",
     Sales |-> 7000, Profit |-> 700, OrderDate |-> <<13, 1, 2020>>] }

\* Order Date cells for the study of the date conversion: valid dates, a
\* leap day in a leap and in a common year, day and month out of range,
\* year-first text, a cell with two fields only, an empty cell.
DateCells ==
  { <<1, 1, 2020>>, <<2, 29, 2020>>, <<2, 29, 2019>>, <<4, 31, 2020>>,
    <<13, 1, 2020>>, <<2020, 1, 1>>, <<1, 1>>, <<>> }

DateRows ==
  { [Region |-> "East", Category |-> "Furniture", SubCategory |-> "Chairs",
     Sales |-> 10000, Profit |-> 1000, OrderDate |-> c] : c \in DateCells }

\* All sequences over S of length at most n.
SeqUpTo(S, n) == UNION { [1..k -> S] : k \in 0..n }

FileStates == {"ok", "missing", "unreadable"}

-----------------------------------------------------------------------------
(* Data Loader: lines 16-33.                                               *)

IsLeap(y) == (y % 4 = 0 /\ y % 100 # 0) \/ y % 400 = 0

DaysInMonth(m, y) ==
  IF m = 2 THEN (IF IsLeap(y) THEN 29 ELSE 28)
  ELSE IF m \in {4, 6, 9, 11} THEN 30 ELSE 31

\* pd.to_datetime(cell, format='%m/%d/%Y', errors='coerce') on one cell:
\* the fields are read as month, day, year in that order; a cell that does
\* not match the format, or names no calendar day, becomes NaT.
to_datetime(cell) ==
  IF Len(cell) # 3 THEN NaT
  ELSE LET m == cell[1]
           d == cell[2]
           y == cell[3]
       IN IF m < 1 \/ m > 12 THEN NaT
          ELSE IF d < 1 \/ d > DaysInMonth(m, y) THEN NaT
          ELSE <<y, m, d>>

\* Line 24: the Order Date column converted cell by cell.
ConvertOrderDate(rows) ==
  [i \in 1..Len(rows) |-> [rows[i] EXCEPT !.OrderDate = to_datetime(@)]]

DropNaKeepsAll(rows) == rows

\* Line 26: df.dropna(subset=['Order Date']).
dropna(rows) == SelectSeq(rows, LAMBDA r : r.OrderDate # NaT)

\* The value load_data returns on failure, and a DataFrame of rows.
None == [none |-> TRUE, rows |-> <<>>]
DataFrame(rows) == [none |-> FALSE, rows |-> rows]

\* One uncached execution of load_data on a file in state fs holding rows:
\* the value returned and the st.error messages it showed.
load_data(fs, rows) ==
  IF fs = "missing"
    THEN [value |-> None, msgs |-> <<"error:FileNotFound">>]
  ELSE IF fs = "unreadable"
    THEN [value |-> None, msgs |-> <<"error:Exception">>]
  ELSE [value |-> DataFrame(dropna(ConvertOrderDate(rows))), msgs |-> <<>>]

-----------------------------------------------------------------------------
(* Filter Engine: lines 69-85.                                             *)

RECURSIVE UniqueFrom(_, _, _)
UniqueFrom(rows, col, seen) ==
  IF rows = <<>> THEN <<>>
  ELSE IF Head(rows)[col] \in seen THEN UniqueFrom(Tail(rows), col, seen)
  ELSE <<Head(rows)[col]>> \o
       UniqueFrom(Tail(rows), col, seen \cup {Head(rows)[col]})

UniqueOfFirstRow(rows, col) ==
  IF rows = <<>> THEN <<>> ELSE <<Head(rows)[col]>>

\* df[col].unique(): the distinct values in order of first appearance.
unique(rows, col) == UniqueFrom(rows, col, {})

Range(s) == { s[i] : i \in 1..Len(s) }

QueryEither(rows, reg, cat) ==
  SelectSeq(rows, LAMBDA r : r.Region \in reg \/ r.Category \in cat)

QueryExcludesCategory(rows, reg, cat) ==
  SelectSeq(rows, LAMBDA r : r.Region \in reg /\ r.Category \notin cat)

\* df.query("Region == @region & Category == @category"): == against a list
\* is membership, and & is the conjunction of the two comparisons.
query(rows, reg, cat) ==
  SelectSeq(rows, LAMBDA r : r.Region \in reg /\ r.Category \in cat)

-----------------------------------------------------------------------------
(* Metrics Calculator: lines 99-101.                                       *)

RECURSIVE SumCol(_, _)
\* Series.sum() of a numeric column, in cents.
SumCol(rows, col) ==
  IF rows = <<>> THEN 0 ELSE Head(rows)[col] + SumCol(Tail(rows), col)

\* int(x) on an amount of c cents (100 to the unit): truncation toward zero.
int(c) == IF c >= 0 THEN c \div 100 ELSE -((-c) \div 100)

\* round(total / n, 2) in cents for n > 0, a tie going to the even cent
\* (\div rounds down and % is non-negative, also for a negative total).
RoundMean(total, n) ==
  LET q == total \div n
      r == total % n
  IN IF 2 * r < n THEN q
     ELSE IF 2 * r > n THEN q + 1
     ELSE IF q % 2 = 0 THEN q ELSE q + 1

-----------------------------------------------------------------------------
(* Chart Builders: lines 120 and 138.                                      *)

\* The order in which groupby (sort=True) lists its group keys.
Alphabetical ==
  <<"Binders", "Chairs", "East", "Furniture", "Office", "Paper", "West">>

\* The keys of Alphabetical that occur in column col of rows, in order.  A
\* missing key (NA) is in no group: groupby drops it (dropna=True).
GroupKeys(rows, col) ==
  SelectSeq(Alphabetical, LAMBDA k : \E i \in 1..Len(rows) : rows[i][col] = k)

GroupFirst(rows, col) ==
  LET keys == GroupKeys(rows, col)
  IN [i \in 1..Len(keys) |->
        [key |-> keys[i],
         value |-> Head(SelectSeq(rows, LAMBDA r : r[col] = keys[i])).Sales]]

\* rows.groupby(by=[col])['Sales'].sum(): one entry per key, in key order.
GroupSales(rows, col) ==
  LET keys == GroupKeys(rows, col)
  IN [i \in 1..Len(keys) |->
        [key |-> keys[i],
         value |-> SumCol(SelectSeq(rows, LAMBDA r : r[col] = keys[i]),
                          "Sales")]]

\* e inserted into the ascending sequence s; among equal values e goes
\* first when tiesFirst, last otherwise.
RECURSIVE Insert(_, _, _)
Insert(e, s, tiesFirst) ==
  IF s = <<>> THEN <<e>>
  ELSE IF e.value < Head(s).value \/ (tiesFirst /\ e.value = Head(s).value)
    THEN <<e>> \o s
  ELSE <<Head(s)>> \o Insert(e, Tail(s), tiesFirst)

RECURSIVE SortAscending(_, _)
SortAscending(s, tiesFirst) ==
  IF s = <<>> THEN <<>>
  ELSE Insert(Head(s), SortAscending(Tail(s), tiesFirst), tiesFirst)

SortKeepsOrder(s, tiesFirst) == s

\* Series.sort_values(ascending=True).  The default sort is not stable, so
\* the order of equal values is either one (tiesFirst).
sort_values(s, tiesFirst) == SortAscending(s, tiesFirst)

-----------------------------------------------------------------------------
(* The process: one script run per render pass.                            *)

VARIABLES
  file_state,            \* the file at PATH: ok, missing or unreadable
  file_rows,             \* the data rows of the CSV file
  cache,                 \* st.cache_data of load_data: path -> entry
  reads,                 \* executions of the body of load_data so far
  ui,                    \* widget state of the two multiselects
  pc,                    \* position of the running pass in the script
  page,                  \* elements rendered by the current pass, in order
  df,                    \* script variables, by their names in the script
  region,
  category,
  df_selection,
  total_sales,
  total_profit,
  average_sale,
  sales_by_subcategory,
  sales_by_region

vars ==
  <<file_state, file_rows, cache, reads, ui, pc, page, df, region, category,
    df_selection, total_sales, total_profit, average_sale,
    sales_by_subcategory, sales_by_region>>

process_vars == <<file_state, file_rows, cache, reads, ui>>
filter_vars == <<region, category, df_selection>>
metric_vars == <<total_sales, total_profit, average_sale>>
chart_vars == <<sales_by_subcategory, sales_by_region>>

\* Widget state before the user has touched the filters: each multiselect
\* returns its default.
Untouched == [touched |-> FALSE, region |-> {}, category |-> {}]

\* The script variables of a pass that has not assigned them yet.
FreshPass ==
  /\ pc' = "load"
  /\ page' = <<>>
  /\ df' = None
  /\ region' = {}
  /\ category' = {}
  /\ df_selection' = <<>>
  /\ total_sales' = 0
  /\ total_profit' = 0
  /\ average_sale' = 0
  /\ sales_by_subcategory' = <<>>
  /\ sales_by_region' = <<>>

InitProcess(universe) ==
  /\ file_state \in FileStates
  /\ file_rows \in SeqUpTo(universe, MaxRows)
  /\ cache = <<>>
  /\ reads = 0
  /\ ui = Untouched
  /\ pc = "load"
  /\ page = <<>>
  /\ df = None
  /\ region = {}
  /\ category = {}
  /\ df_selection = <<>>
  /\ total_sales = 0
  /\ total_profit = 0
  /\ average_sale = 0
  /\ sales_by_subcategory = <<>>
  /\ sales_by_region = <<>>

Init == InitProcess(Rows)

InitDates == InitProcess(DateRows)

CallAlwaysRuns(c, path, fs, rows) ==
  LET e == load_data(fs, rows)
  IN [entry |-> e, ran |-> TRUE,
      cache |-> [p \in DOMAIN c \cup {path} |-> IF p = path THEN e ELSE c[p]]]

\* @st.cache_data (line 16): a call with a path already in the cache
\* returns the stored entry and does not run the body; any other call runs
\* it and stores what it returned and showed.
cache_data(c, path, fs, rows) ==
  IF path \in DOMAIN c
    THEN [entry |-> c[path], ran |-> FALSE, cache |-> c]
  ELSE LET e == load_data(fs, rows)
       IN [entry |-> e, ran |-> TRUE,
           cache |-> [p \in DOMAIN c \cup {path} |->
                        IF p = path THEN e ELSE c[p]]]

NeverStops(value) == "style"

\* Lines 39-40: if df is None: st.stop().
AfterLoad(value) == IF value.none THEN "stopped" ELSE "style"

\* Lines 36-40: df = load_data("superstore_sales.csv"), then the None
\* check.  The messages load_data showed are shown again on a cache hit.
LoadStep ==
  /\ pc = "load"
  /\ LET call == cache_data(cache, PATH, file_state, file_rows)
     IN /\ cache' = call.cache
        /\ reads' = IF call.ran THEN reads + 1 ELSE reads
        /\ df' = call.entry.value
        /\ page' = page \o call.entry.msgs
        /\ pc' = AfterLoad(call.entry.value)
  /\ UNCHANGED <<file_state, file_rows, ui>>
  /\ UNCHANGED <<filter_vars, metric_vars, chart_vars>>

\* Lines 44-62: the style sheet.
StyleStep ==
  /\ pc = "style"
  /\ page' = Append(page, "style")
  /\ pc' = "sidebar"
  /\ UNCHANGED <<process_vars, df, filter_vars, metric_vars, chart_vars>>

\* Lines 66-80: the sidebar header and the two multiselects, each with the
\* distinct values of its column as options and as default.
SidebarStep ==
  /\ pc = "sidebar"
  /\ page' = page \o <<"sidebar.header", "multiselect:Region",
                       "multiselect:Category">>
  /\ region' = IF ui.touched THEN ui.region
               ELSE Range(unique(df.rows, "Region"))
  /\ category' = IF ui.touched THEN ui.category
                 ELSE Range(unique(df.rows, "Category"))
  /\ pc' = "filter"
  /\ UNCHANGED <<process_vars, df, df_selection, metric_vars, chart_vars>>

ContinuesWhenEmpty(selection) == "title"

\* Lines 88-90: if df_selection.empty: st.warning(...); st.stop().
AfterFilter(selection) == IF selection = <<>> THEN "stopped" ELSE "title"

\* Lines 83-90: the query, then the empty check.
FilterStep ==
  /\ pc = "filter"
  /\ LET selection == query(df.rows, region, category)
     IN /\ df_selection' = selection
        /\ page' = IF selection = <<>> THEN Append(page, "warning") ELSE page
        /\ pc' = AfterFilter(selection)
  /\ UNCHANGED <<process_vars, df, region, category, metric_vars, chart_vars>>

\* Lines 94-95: the title and the spacer.
TitleStep ==
  /\ pc = "title"
  /\ page' = page \o <<"title", "spacer">>
  /\ pc' = "metrics"
  /\ UNCHANGED <<process_vars, df, filter_vars, metric_vars, chart_vars>>

\* Lines 99-112: the three KPIs and their metric displays.
MetricsStep ==
  /\ pc = "metrics"
  /\ total_sales' = int(SumCol(df_selection, "Sales"))
  /\ total_profit' = int(SumCol(df_selection, "Profit"))
  /\ average_sale' = RoundMean(SumCol(df_selection, "Sales"), Len(df_selection))
  /\ page' = page \o <<"metric:Total Sales", "metric:Total Profit",
                       "metric:Average Sale Value", "rule">>
  /\ pc' = "charts"
  /\ UNCHANGED <<process_vars, df, filter_vars, chart_vars>>

\* Lines 116-156: the two aggregates, their figures and the two columns.
ChartsStep ==
  /\ pc = "charts"
  /\ \E tiesFirst \in BOOLEAN :
       sales_by_subcategory' =
         sort_values(GroupSales(df_selection, "SubCategory"), tiesFirst)
  /\ sales_by_region' = GroupSales(df_selection, "Region")
  /\ page' = page \o <<"header", "bar", "pie">>
  /\ pc' = "table"
  /\ UNCHANGED <<process_vars, df, filter_vars, metric_vars>>

\* Lines 160-161: the expander with the filtered rows; the script ends.
TableStep ==
  /\ pc = "table"
  /\ page' = Append(page, "table")
  /\ pc' = "done"
  /\ UNCHANGED <<process_vars, df, filter_vars, metric_vars, chart_vars>>

PassOver == pc \in {"done", "stopped"}

\* The user changes the selection of the multiselects shown by the last
\* pass: the widget state is set and the script runs again from the top.
Interact ==
  /\ PassOver
  /\ "multiselect:Region" \in Range(page)
  /\ \E R \in SUBSET Range(unique(df.rows, "Region")),
        C \in SUBSET Range(unique(df.rows, "Category")) :
       /\ <<R, C>> # <<region, category>>
       /\ ui' = [touched |-> TRUE, region |-> R, category |-> C]
  /\ FreshPass
  /\ UNCHANGED <<file_state, file_rows, cache, reads>>

\* The script runs again with the widget state as it is.
Rerun ==
  /\ PassOver
  /\ FreshPass
  /\ UNCHANGED process_vars

\* The environment replaces, removes or damages the file at PATH.
FileChange ==
  /\ \E fs \in FileStates \ {file_state} : file_state' = fs
  /\ UNCHANGED <<file_rows, cache, reads, ui, pc, page, df>>
  /\ UNCHANGED <<filter_vars, metric_vars, chart_vars>>

Next ==
  \/ LoadStep
  \/ StyleStep
  \/ SidebarStep
  \/ FilterStep
  \/ TitleStep
  \/ MetricsStep
  \/ ChartsStep
  \/ TableStep
  \/ Interact
  \/ Rerun
  \/ FileChange

Spec == Init /\ [][Next]_vars

SpecDates == InitDates /\ [][Next]_vars

-----------------------------------------------------------------------------
(* Vocabulary of the properties, stated without the operators above.       *)

\* The pass has evaluated the query and the empty check.
FilterDone ==
  \/ pc \in {"title", "metrics", "charts", "table", "done"}
  \/ pc = "stopped" /\ "warning" \in Range(page)

\* The pass has computed the three KPIs.
MetricsDone == pc \in {"charts", "table", "done"}

\* The pass has built both charts.
ChartsDone == pc \in {"table", "done"}

\* The elements of the page below the sidebar.
MainElements ==
  { "title", "spacer", "metric:Total Sales", "metric:Total Profit",
    "metric:Average Sale Value", "rule", "header", "bar", "pie", "table" }

SidebarElements ==
  { "sidebar.header", "multiselect:Region", "multiselect:Category" }

ErrorElements == { "error:FileNotFound", "error:Exception" }

RECURSIVE SumTo(_, _, _)
SumTo(rows, col, n) ==
  IF n = 0 THEN 0 ELSE SumTo(rows, col, n - 1) + rows[n][col]

\* The sum of column col over rows.
Total(rows, col) == SumTo(rows, col, Len(rows))

\* The rows of a Dataset that a selection (R, C) admits.
View(rows, R, C) ==
  SelectSeq(rows, LAMBDA r : r.Region \in R /\ r.Category \in C)

\* The strictly increasing maps from the positions of sub into those of
\* rows.
Embeddings(sub, rows) ==
  { f \in [1..Len(sub) -> 1..Len(rows)] :
      \A i, j \in 1..Len(sub) : i < j => f[i] < f[j] }

\* t is the amount of c cents with its fraction dropped.
IsTruncation(t, c) ==
  IF c >= 0 THEN 100 * t <= c /\ c < 100 * t + 100
  ELSE 100 * t >= c /\ c > 100 * t - 100

-----------------------------------------------------------------------------
(* C1: the Filtered View holds exactly the Dataset rows whose Region is    *)
(* selected and whose Category is selected, each once, unaltered and in    *)
(* Dataset order.                                                          *)
C1_FilterExact ==
  FilterDone =>
    \E f \in Embeddings(df_selection, df.rows) :
      /\ \A i \in 1..Len(df_selection) : df_selection[i] = df.rows[f[i]]
      /\ { f[i] : i \in 1..Len(df_selection) } =
           { j \in 1..Len(df.rows) :
               df.rows[j].Region \in region /\ df.rows[j].Category \in category }

\* A view that keeps a row, drops one for its Category alone and drops one
\* for its Region alone.
C1_Witness ==
  /\ FilterDone
  /\ df_selection # <<>>
  /\ \E j \in 1..Len(df.rows) :
       df.rows[j].Region \in region /\ df.rows[j].Category \notin category
  /\ \E j \in 1..Len(df.rows) :
       df.rows[j].Region \notin region /\ df.rows[j].Category \in category

-----------------------------------------------------------------------------
(* C2: in a pass whose Filtered View is empty a warning is shown and       *)
(* nothing below the sidebar is rendered, the pass being halted, while the *)
(* sidebar widgets have been rendered.                                     *)
C2_EmptyViewHalts ==
  (FilterDone /\ df_selection = <<>>) =>
    /\ pc = "stopped"
    /\ "warning" \in Range(page)
    /\ Range(page) \cap MainElements = {}
    /\ SidebarElements \subseteq Range(page)

\* The halt on an empty Region selection over a Dataset that has rows.
C2_Witness ==
  /\ pc = "stopped"
  /\ "warning" \in Range(page)
  /\ region = {}
  /\ category # {}
  /\ df.rows # <<>>

-----------------------------------------------------------------------------
(* C3: in a pass where load_data returns None an error is shown and the    *)
(* pass is halted with nothing else on the page: no style, no sidebar      *)
(* widget, no title, metric, chart or table.                               *)
C3_LoadFailureHalts ==
  (pc # "load" /\ df.none) =>
    /\ pc = "stopped"
    /\ Range(page) \cap ErrorElements # {}
    /\ Range(page) \subseteq ErrorElements

\* Both kinds of failure: the missing file and the unreadable one.
C3_Witness ==
  /\ pc = "stopped"
  /\ df.none
  /\ page = <<"error:FileNotFound">>

C3_WitnessUnreadable ==
  /\ pc = "stopped"
  /\ df.none
  /\ page = <<"error:Exception">>

-----------------------------------------------------------------------------
MonthLengths(y) ==
  <<31, IF (y % 4 = 0 /\ y % 100 # 0) \/ y % 400 = 0 THEN 29 ELSE 28,
    31, 30, 31, 30, 31, 31, 30, 31, 30, 31>>

\* The cell reads month/day/year and names a day of the calendar.
IsMonthDayYear(cell) ==
  /\ Len(cell) = 3
  /\ cell[1] \in 1..12
  /\ cell[2] \in 1..MonthLengths(cell[3])[cell[1]]

\* The positions of the input rows with a good, respectively bad, date.
GoodDates == { j \in 1..Len(file_rows) : IsMonthDayYear(file_rows[j].OrderDate) }
BadDates == { j \in 1..Len(file_rows) : ~IsMonthDayYear(file_rows[j].OrderDate) }

\* A step that runs load_data on a readable file.
LoadsReadableFile ==
  /\ pc = "load"
  /\ pc' # "load"
  /\ PATH \notin DOMAIN cache
  /\ file_state = "ok"

(* C4: load_data on a readable CSV returns exactly the input rows whose    *)
(* Order Date is a month/day/year date, in input order, and shows no       *)
(* error: every retained row has a valid Order Date, no row with a bad     *)
(* date is retained, and the number of retained rows is the number of      *)
(* input rows minus the number of rows with a bad date.                    *)
C4_LoadKeepsGoodDates ==
  [][LoadsReadableFile =>
       /\ ~df'.none
       /\ page' = <<>>
       /\ Len(df'.rows) = Len(file_rows) - Cardinality(BadDates)
       /\ \E f \in Embeddings(df'.rows, file_rows) :
            /\ { f[i] : i \in 1..Len(df'.rows) } = GoodDates
            /\ \A i \in 1..Len(df'.rows) :
                 LET in == file_rows[f[i]]
                     out == df'.rows[i]
                 IN /\ out.OrderDate =
                         <<in.OrderDate[3], in.OrderDate[1], in.OrderDate[2]>>
                    /\ [out EXCEPT !.OrderDate = in.OrderDate] = in]_vars

\* A loaded Dataset that kept a row between two rows it dropped.
C4_Witness ==
  /\ PATH \in DOMAIN cache
  /\ ~cache[PATH].value.none
  /\ Len(file_rows) = MaxRows
  /\ GoodDates = 2..(MaxRows - 1)
  /\ Len(cache[PATH].value.rows) = MaxRows - 2

-----------------------------------------------------------------------------
\* A step that calls load_data.
CallsLoadData == pc = "load" /\ pc' # "load"

(* C5: the cache of load_data is filled at most once for the path: the     *)
(* first call runs the body, every later call returns the stored value     *)
(* without running it, and no step changes a stored value.                 *)
C5_CachePopulatedOnce ==
  [][/\ PATH \in DOMAIN cache => (cache' = cache /\ reads' = reads)
     /\ (CallsLoadData /\ PATH \notin DOMAIN cache) =>
          (reads' = reads + 1 /\ PATH \in DOMAIN cache')
     /\ CallsLoadData => df' = cache'[PATH].value
     /\ reads' <= 1]_vars

\* A later pass, started by the user, that got the Dataset from the cache
\* although the file is gone.
C5_Witness ==
  /\ ui.touched
  /\ pc = "done"
  /\ reads = 1
  /\ file_state = "missing"
  /\ ~df.none

-----------------------------------------------------------------------------
\* The selections within the rendered one that have a view of their own.
Narrower ==
  { s \in (SUBSET region) \X (SUBSET category) :
      View(df.rows, s[1], s[2]) # <<>> }

\* The rows the rendered view has and the view of selection s lacks.
Gained(s) ==
  SelectSeq(df_selection,
            LAMBDA r : ~(r.Region \in s[1] /\ r.Category \in s[2]))

\* The amount of c cents, its fraction dropped, is at most t units.
TruncatesAtMost(c, t) == IF t >= 0 THEN c < 100 * (t + 1) ELSE c <= 100 * t

\* The total of column col over the view of selection s, in cents.
NarrowTotal(s, col) == Total(View(df.rows, s[1], s[2]), col)

(* C6 as stated: widening the selection never lowers Total Sales or Total  *)
(* Profit.  For every selection (R1, C1) within the rendered one whose     *)
(* view is not empty, the totals of the rendered pass are at least those   *)
(* of (R1, C1).                                                            *)
C6_TotalsMonotone ==
  MetricsDone =>
    \A s \in Narrower :
      /\ TruncatesAtMost(NarrowTotal(s, "Sales"), total_sales)
      /\ TruncatesAtMost(NarrowTotal(s, "Profit"), total_profit)

(* C6 as amended: the same, for Total Sales when no gained row has a       *)
(* negative Sales, and for Total Profit when no gained row has a negative  *)
(* Profit.                                                                 *)
C6_TotalsMonotoneOverGains ==
  MetricsDone =>
    \A s \in Narrower :
      LET gained == Gained(s)
      IN /\ (\A i \in 1..Len(gained) : gained[i].Sales >= 0)
              => TruncatesAtMost(NarrowTotal(s, "Sales"), total_sales)
         /\ (\A i \in 1..Len(gained) : gained[i].Profit >= 0)
              => TruncatesAtMost(NarrowTotal(s, "Profit"), total_profit)

\* A pass whose selection widens, in Regions and in Categories, a
\* selection with a view of its own, and gains rows without a loss.
C6_Witness ==
  /\ MetricsDone
  /\ \E s \in Narrower :
       /\ s[1] # region
       /\ s[2] # category
       /\ Gained(s) # <<>>
       /\ \A i \in 1..Len(Gained(s)) : Gained(s)[i].Profit >= 0
       /\ total_profit > 0

-----------------------------------------------------------------------------
\* The sum of the values of an aggregate, in cents.
SumOfValues(agg) == Total(agg, "value")

\* The rows of the Filtered View that have a value in column col.
WithValue(col) == SelectSeq(df_selection, LAMBDA r : r[col] # NA)

(* C7 as stated: the slice values of the Region pie chart sum to the Total *)
(* Sales shown in the metrics row.                                         *)
C7_SlicesSumToShownTotal ==
  ChartsDone => SumOfValues(sales_by_region) = 100 * total_sales

(* C7 as amended: the slice values sum to the untruncated sum of Sales     *)
(* over the rows of the Filtered View that have a Region; when every row   *)
(* of the view has a Region, the Total Sales shown is that sum with its    *)
(* fraction dropped.                                                       *)
C7_SlicesSumToSalesOfRegions ==
  ChartsDone =>
    /\ SumOfValues(sales_by_region) = Total(WithValue("Region"), "Sales")
    /\ WithValue("Region") = df_selection =>
         IsTruncation(total_sales, SumOfValues(sales_by_region))

\* Two slices, one of them over two rows, whose sum has a fraction.
C7_Witness ==
  /\ ChartsDone
  /\ Len(sales_by_region) = 2
  /\ Len(df_selection) = 3
  /\ SumOfValues(sales_by_region) % 100 # 0

-----------------------------------------------------------------------------
\* The values column col takes in the Dataset.
AllValues(col) == { df.rows[j][col] : j \in 1..Len(df.rows) }

(* C8: with every distinct Region and every distinct Category of the       *)
(* Dataset selected, which is the selection of a pass before the user has  *)
(* touched the filters, the Filtered View is the Dataset.                  *)
C8_FullSelectionKeepsAll ==
  /\ (pc = "filter" \/ FilterDone) =>
       (~ui.touched =>
          region = AllValues("Region") /\ category = AllValues("Category"))
  /\ (FilterDone /\ region = AllValues("Region")
                 /\ category = AllValues("Category")) =>
       df_selection = df.rows

\* A first pass over a Dataset with two Regions and two Categories.
C8_Witness ==
  /\ FilterDone
  /\ ~ui.touched
  /\ Len(df.rows) >= 3
  /\ Cardinality(AllValues("Region")) >= 2
  /\ Cardinality(AllValues("Category")) >= 2
  /\ df_selection = df.rows

-----------------------------------------------------------------------------
(* C9: the bar chart has one bar per distinct Sub-Category of the Filtered *)
(* View, valued at the sum of Sales of the rows of that Sub-Category, and  *)
(* the bars are in ascending order of value.  A row without Sub-Category   *)
(* has none and is in no bar.                                              *)
C9_BarsSortedAscending ==
  ChartsDone =>
    LET bars == sales_by_subcategory
    IN /\ \A i, j \in 1..Len(bars) : i # j => bars[i].key # bars[j].key
       /\ { bars[i].key : i \in 1..Len(bars) } =
            { df_selection[j].SubCategory : j \in 1..Len(df_selection) } \ {NA}
       /\ \A i \in 1..Len(bars) :
            bars[i].value =
              Total(SelectSeq(df_selection,
                              LAMBDA r : r.SubCategory = bars[i].key), "Sales")
       /\ \A i \in 1..(Len(bars) - 1) : bars[i].value <= bars[i + 1].value

\* Three bars that the sort had to reorder.
C9_Witness ==
  /\ ChartsDone
  /\ Len(sales_by_subcategory) = 3
  /\ sales_by_subcategory[1].key = "Binders"
  /\ sales_by_subcategory[2].key = "Paper"
  /\ sales_by_subcategory[3].key = "Chairs"
  /\ sales_by_subcategory[2].value < sales_by_subcategory[3].value

-----------------------------------------------------------------------------
\* The pass is past the empty check of line 88 and was not halted by it.
PastEmptyHalt == pc \in {"title", "metrics", "charts", "table", "done"}

(* C10 as stated: in a pass that gets past the empty-view halt the         *)
(* Filtered View has a row and both aggregates have a group.               *)
C10_AggregatesNonEmpty ==
  /\ PastEmptyHalt => df_selection # <<>>
  /\ ChartsDone =>
       (sales_by_subcategory # <<>> /\ sales_by_region # <<>>)

(* C10 as amended: in a pass that gets past the empty-view halt the        *)
(* Filtered View has a row, so the metrics are computed over at least one  *)
(* row; the Sub-Category aggregate has a group exactly when some row of    *)
(* the view has a Sub-Category, and the Region aggregate has a group       *)
(* exactly when some row of the view has a Region.                         *)
C10_AggregatesOverKeyedRows ==
  /\ PastEmptyHalt => df_selection # <<>>
  /\ ChartsDone =>
       /\ sales_by_subcategory # <<>> <=> WithValue("SubCategory") # <<>>
       /\ sales_by_region # <<>> <=> WithValue("Region") # <<>>

\* Charts built over a view none of whose rows has a Sub-Category.
C10_Witness ==
  /\ ChartsDone
  /\ df_selection # <<>>
  /\ sales_by_subcategory = <<>>
  /\ sales_by_region # <<>>

=============================================================================
